---- MODULE Spec2Model ----
(***************************************************************************)
(* Powers-of-tau accumulator: update, update proofs, chain verification    *)
(* and structure check (src/src/accumulator.rs, src/src/update_proof.rs).  *)
(*                                                                         *)
(* Group elements are represented by their discrete logarithm relative to  *)
(* the generator of their group: G1, G2 and the pairing target group are   *)
(* cyclic of the same prime order R, so a point is a number in 0..R-1, the *)
(* identity is 0, the generator is 1, scalar multiplication is             *)
(* multiplication mod R and the pairing e(a*G1, b*G2) = e(G1,G2)^(a*b) is  *)
(* multiplication mod R of the two logarithms.                             *)
(*                                                                         *)
(* Vectors are 1-based here: source index i is index i+1 below.            *)
(***************************************************************************)
EXTENDS Integers, Sequences, FiniteSets, TLC

\* Order of the scalar field Fr and of the groups (a prime).
R == 5

\* Bounds of the model.
MaxG1 == 3
MaxG2 == 3
MaxUpdates == 3

Fr == 0 .. (R - 1)

\* G1Projective::prime_subgroup_generator(), G2Projective::prime_subgroup_generator()
G1_generator == 1
G2_generator == 1

\* Zero::is_zero on a projective point: the group identity
is_zero(p) == p = 0

\* wnaf.mul(point, scalar)
mul(p, s) == (p * s) % R

\* Bls12_381::pairing(p, q), as the logarithm of the target-group element
pairing(p, q) == (p * q) % R

\* PrivateKey::to_public: secret * G2 generator
to_public(tau) == mul(G2_generator, tau)

\* std::cmp::max
max(a, b) == IF a >= b THEN a ELSE b

\* Accumulator::new: every slot is the generator of its group
new(num_g1_elements_needed, num_g2_elements_needed) ==
    [tau_g1 |-> [i \in 1 .. num_g1_elements_needed |-> G1_generator],
     tau_g2 |-> [i \in 1 .. num_g2_elements_needed |-> G2_generator]]

\* NUM_G2_ELEMENTS_NEEDED in Accumulator::new_for_kzg
NUM_G2_ELEMENTS_NEEDED == 2

\* Accumulator::new_for_kzg
new_for_kzg(num_coefficients) == new(num_coefficients, NUM_G2_ELEMENTS_NEEDED)

\* vandemonde_push with the push of challenges[i] instead of challenges[i] * x
RECURSIVE vandemonde_push_flat(_, _, _)
vandemonde_push_flat(challenges, x, k) ==
    IF k <= 0 THEN challenges
    ELSE vandemonde_push_flat(Append(challenges, challenges[Len(challenges)]), x, k - 1)

\* the loop of vandemonde_challenge: k further pushes of challenges[last] * x
RECURSIVE vandemonde_push(_, _, _)
vandemonde_push(challenges, x, k) ==
    IF k <= 0 THEN challenges
    ELSE vandemonde_push(Append(challenges, (challenges[Len(challenges)] * x) % R), x, k - 1)

\* vandemonde_challenge without the multiplication: [x, x, ..., x]
vandemonde_challenge_flat(x, n) == vandemonde_push_flat(<<x>>, x, n - 1)

\* vandemonde_challenge(x, n) = [x, x^2, ..., x^n]
vandemonde_challenge(x, n) == vandemonde_push(<<x>>, x, n - 1)

\* skip1_zip_mul without the skip(1): slot j is paired with powers[j]
zip_mul_noskip(v, powers) ==
    [j \in 1 .. Len(v) |->
        IF j <= Len(powers) THEN mul(v[j], powers[j]) ELSE v[j]]

\* iter_mut().skip(1).zip(powers).for_each(|(t, p)| *t = wnaf.mul(*t, p)):
\* slot j >= 2 is paired with powers[j-1] as long as powers lasts
skip1_zip_mul(v, powers) ==
    [j \in 1 .. Len(v) |->
        IF j >= 2 /\ j - 1 <= Len(powers) THEN mul(v[j], powers[j - 1]) ELSE v[j]]

\* update_accumulator without the pass over tau_g2
update_accumulator_g1_only(self, private_key) ==
    LET max_number_elements == max(Len(self.tau_g1), Len(self.tau_g2))
        powers_of_priv_key == vandemonde_challenge(private_key, max_number_elements)
    IN  [tau_g1 |-> skip1_zip_mul(self.tau_g1, powers_of_priv_key),
         tau_g2 |-> self.tau_g2]

\* Accumulator::update_accumulator
update_accumulator(self, private_key) ==
    LET max_number_elements == max(Len(self.tau_g1), Len(self.tau_g2))
        powers_of_priv_key == vandemonde_challenge(private_key, max_number_elements)
    IN  [tau_g1 |-> skip1_zip_mul(self.tau_g1, powers_of_priv_key),
         tau_g2 |-> skip1_zip_mul(self.tau_g2, powers_of_priv_key)]

\* Accumulator::update: the mutated accumulator and the returned UpdateProof
\* (the three fields update() fills in; verify_chain reads the last two)
update(self, private_key) ==
    LET previous_tau == self.tau_g1[2]
        updated == update_accumulator(self, private_key)
        updated_tau == updated.tau_g1[2]
    IN  [acc |-> updated,
         proof |-> [commitment_to_secret |-> to_public(private_key),
                    previous_accumulated_point |-> previous_tau,
                    new_accumulated_point |-> updated_tau]]

\* SharedSecretChain::starting_from
starting_from(point) == [anchor |-> point, ok |-> TRUE]

\* SharedSecretChain::extend: the check of one proof against the current
\* anchor, e(new, G2) = e(prev, C), and the anchor advanced to the new point
extend(chain, new_accumulated_point, witness) ==
    [anchor |-> new_accumulated_point,
     ok |-> chain.ok /\ pairing(new_accumulated_point, G2_generator)
                          = pairing(chain.anchor, witness)]

\* SharedSecretChain::verify
chain_verify(chain) == chain.ok

\* the for loop of UpdateProof::verify_chain
RECURSIVE extend_all(_, _)
extend_all(chain, update_proofs) ==
    IF update_proofs = <<>> THEN chain
    ELSE extend_all(extend(chain, Head(update_proofs).new_accumulated_point,
                                  Head(update_proofs).commitment_to_secret),
                    Tail(update_proofs))

\* verify_chain whose loop stops after the first proof
verify_chain_first_only(starting_point, update_proofs) ==
    chain_verify(extend_all(starting_from(starting_point),
                            SubSeq(update_proofs, 1, IF update_proofs = <<>> THEN 0 ELSE 1)))

\* verify_chain whose loop leaves out the last proof
verify_chain_skip_last(starting_point, update_proofs) ==
    chain_verify(extend_all(starting_from(starting_point),
                            SubSeq(update_proofs, 1, Len(update_proofs) - 1)))

\* UpdateProof::verify_chain(starting_point, update_proofs)
verify_chain(starting_point, update_proofs) ==
    chain_verify(extend_all(starting_from(starting_point), update_proofs))

\* structure_check without the loop over the G2 elements
structure_check_g1_only(self) ==
    LET tau_g2_0 == self.tau_g2[1]
        tau_g2_1 == self.tau_g2[2]
    IN  \A i \in 1 .. (Len(self.tau_g1) - 1) :
            pairing(self.tau_g1[i + 1], tau_g2_0) = pairing(self.tau_g1[i], tau_g2_1)

\* Accumulator::structure_check
structure_check(self) ==
    LET tau_g2_0 == self.tau_g2[1]
        tau_g2_1 == self.tau_g2[2]
        tau_g1_0 == self.tau_g1[1]
        tau_g1_1 == self.tau_g1[2]
    IN  /\ \A i \in 1 .. (Len(self.tau_g1) - 1) :
              pairing(self.tau_g1[i + 1], tau_g2_0) = pairing(self.tau_g1[i], tau_g2_1)
        /\ \A i \in 1 .. (Len(self.tau_g2) - 1) :
              pairing(tau_g1_0, self.tau_g2[i + 1]) = pairing(tau_g1_1, self.tau_g2[i])

\* steps 2 and 3 of Accumulator::verify_updates
verify_updates_tail(starting_point, after, update_proofs) ==
    IF ~verify_chain(starting_point, update_proofs) THEN "false"
    ELSE IF is_zero(after.tau_g1[1]) THEN "false"
    ELSE IF is_zero(after.tau_g2[1]) THEN "false"
    ELSE IF ~structure_check(after) THEN "false"
    ELSE "true"

\* verify_updates with first() and last() unchecked: steps 1a and 1b are
\* skipped on an empty slice
verify_updates_noexpect(before, after, update_proofs) ==
    IF update_proofs = <<>> THEN verify_updates_tail(before.tau_g1[2], after, update_proofs)
    ELSE IF before.tau_g1[2] # update_proofs[1].previous_accumulated_point THEN "false"
    ELSE IF after.tau_g1[2] # update_proofs[Len(update_proofs)].new_accumulated_point
         THEN "false"
    ELSE verify_updates_tail(update_proofs[1].previous_accumulated_point, after, update_proofs)

\* verify_updates without steps 1a and 1b
verify_updates_unbound(before, after, update_proofs) ==
    IF update_proofs = <<>> THEN "panic"
    ELSE verify_updates_tail(update_proofs[1].previous_accumulated_point, after, update_proofs)

\* Accumulator::verify_updates; "panic" is the failed expect on an empty slice.
\* The chain of the proofs starts from the first proof's previous point.
verify_updates(before, after, update_proofs) ==
    IF update_proofs = <<>> THEN "panic"
    ELSE LET first_update == update_proofs[1]
             last_update == update_proofs[Len(update_proofs)]
         IN  IF before.tau_g1[2] # first_update.previous_accumulated_point THEN "false"
             ELSE IF after.tau_g1[2] # last_update.new_accumulated_point THEN "false"
             ELSE verify_updates_tail(first_update.previous_accumulated_point,
                                      after, update_proofs)

\* Accumulator::verify_update
verify_update(before, after, update_proof) ==
    verify_updates(before, after, <<update_proof>>)

bool(b) == IF b THEN "true" ELSE "false"

VARIABLES
    before,    \* the accumulator cloned at the start of the transcript
    acc,       \* the accumulator being updated (`after`)
    proofs,    \* the transcript handed to the verifier
    keys,      \* the private keys of the recorded updates, in order
    tamper,    \* what was done to the transcript since the updates
    res        \* the last verification call and its result

vars == <<before, acc, proofs, keys, tamper, res>>

NoRes == [op |-> "none", val |-> "none"]

Init ==
    /\ \E n1 \in 2 .. MaxG1, n2 \in 2 .. MaxG2 : acc = new(n1, n2)
    /\ before = acc
    /\ proofs = <<>>
    /\ keys = <<>>
    /\ tamper = "none"
    /\ res = NoRes

\* let proof = acc.update(PrivateKey { tau: k }), the proof appended to the transcript
Update ==
    \E k \in Fr :
        /\ tamper = "none"
        /\ Len(proofs) < MaxUpdates
        /\ acc' = update(acc, k).acc
        /\ proofs' = Append(proofs, update(acc, k).proof)
        /\ keys' = Append(keys, k)
        /\ res' = NoRes
        /\ UNCHANGED <<before, tamper>>

\* let before = acc.clone(): a new transcript starts at the current accumulator
Clone ==
    /\ proofs # <<>> \/ tamper # "none"
    /\ before' = acc
    /\ proofs' = <<>>
    /\ keys' = <<>>
    /\ tamper' = "none"
    /\ res' = NoRes
    /\ UNCHANGED acc

\* Accumulator::verify_updates(&before, &acc, &proofs)
VerifyUpdates ==
    /\ res' = [op |-> "verify_updates", val |-> verify_updates(before, acc, proofs)]
    /\ UNCHANGED <<before, acc, proofs, keys, tamper>>

\* UpdateProof::verify_chain(before.tau_g1[1], &proofs)
VerifyChain ==
    /\ res' = [op |-> "verify_chain", val |-> bool(verify_chain(before.tau_g1[2], proofs))]
    /\ UNCHANGED <<before, acc, proofs, keys, tamper>>

\* Accumulator::structure_check on the current accumulator
StructureCheck ==
    /\ res' = [op |-> "structure_check", val |-> bool(structure_check(acc))]
    /\ UNCHANGED <<before, acc, proofs, keys, tamper>>

\* contribute(): the accumulator is updated with a key and the UpdateProof
\* of that update is dropped, so the transcript does not grow
Contribute ==
    \E k \in Fr :
        /\ tamper = "none"
        /\ acc' = update(acc, k).acc
        /\ tamper' = "contribute"
        /\ res' = NoRes
        /\ UNCHANGED <<before, proofs, keys>>

\* the caller hands the proofs to the verifier with two of them out of place
Swap ==
    \E i \in 1 .. Len(proofs), j \in 1 .. Len(proofs) :
        /\ tamper = "none"
        /\ i < j
        /\ proofs' = [proofs EXCEPT ![i] = proofs[j], ![j] = proofs[i]]
        /\ tamper' = "swap"
        /\ res' = NoRes
        /\ UNCHANGED <<before, acc, keys>>

\* one proof's new_accumulated_point is replaced by a different group point
TamperPoint ==
    \E j \in 1 .. Len(proofs), pt \in Fr :
        /\ tamper = "none"
        /\ pt # proofs[j].new_accumulated_point
        /\ proofs' = [proofs EXCEPT ![j].new_accumulated_point = pt]
        /\ tamper' = "point"
        /\ res' = NoRes
        /\ UNCHANGED <<before, acc, keys>>

\* the first proof's previous_accumulated_point is replaced by a different group point
TamperPrev ==
    \E pt \in Fr :
        /\ tamper = "none"
        /\ proofs # <<>>
        /\ pt # proofs[1].previous_accumulated_point
        /\ proofs' = [proofs EXCEPT ![1].previous_accumulated_point = pt]
        /\ tamper' = "prev"
        /\ res' = NoRes
        /\ UNCHANGED <<before, acc, keys>>

Next ==
    \/ Update
    \/ Clone
    \/ VerifyUpdates
    \/ VerifyChain
    \/ StructureCheck

\* a ceremony: updates of a fresh accumulator, each proof kept, and the verifiers
Spec == Init /\ [][Next]_vars

InitKzg ==
    /\ \E num_coefficients \in 2 .. MaxG1 : acc = new_for_kzg(num_coefficients)
    /\ before = acc
    /\ proofs = <<>>
    /\ keys = <<>>
    /\ tamper = "none"
    /\ res = NoRes

NextAudit ==
    \/ Update
    \/ Clone
    \/ VerifyUpdates
    \/ VerifyChain
    \/ StructureCheck
    \/ Contribute
    \/ Swap
    \/ TamperPoint
    \/ TamperPrev

\* a KZG ceremony whose transcript may reach the verifier out of step with
\* the accumulators: a dropped proof, two proofs swapped, a point replaced
SpecAudit == InitKzg /\ [][NextAudit]_vars

\* Accumulator::deserialise(points, params, _): vectors of arbitrary group points
Deserialised ==
    UNION {[tau_g1 : [1 .. n1 -> Fr], tau_g2 : [1 .. n2 -> Fr]] :
              n1 \in 2 .. MaxG1, n2 \in 2 .. MaxG2}

InitDeserialised ==
    /\ acc \in Deserialised
    /\ before = acc
    /\ proofs = <<>>
    /\ keys = <<>>
    /\ tamper = "none"
    /\ res = NoRes

NextStructure == StructureCheck

SpecStructure == InitDeserialised /\ [][NextStructure]_vars

----------------------------------------------------------------------------
(* Vocabulary of the properties *)

NonDegenerate(k) == k # 0 /\ k # 1

AllNonDegenerate(ks) == \A i \in 1 .. Len(ks) : NonDegenerate(ks[i])

PairwiseDistinct(ks) == \A i, j \in 1 .. Len(ks) : i # j => ks[i] # ks[j]

Fresh(a) == a = new(Len(a.tau_g1), Len(a.tau_g2))

\* b^e mod R by repeated multiplication
RECURSIVE Pow(_, _)
Pow(b, e) == IF e = 0 THEN 1 ELSE (b * Pow(b, e - 1)) % R

\* product of the first n keys mod R
RECURSIVE Prod(_, _)
Prod(ks, n) == IF n = 0 THEN 1 ELSE (Prod(ks, n - 1) * ks[n]) % R

\* the vectors G1 * t^i, G2 * t^i with the lengths of a
Powers(t, a) ==
    [tau_g1 |-> [i \in 1 .. Len(a.tau_g1) |-> Pow(t, i - 1)],
     tau_g2 |-> [i \in 1 .. Len(a.tau_g2) |-> Pow(t, i - 1)]]

Last(sq) == sq[Len(sq)]

----------------------------------------------------------------------------
(* Properties *)

\* C1: after a single update of a clone of `before` with the private key 1,
\* verify_update(before, after, proof) with the returned proof is false.
C1_RejectPrivateKeyOne ==
    (tamper = "none" /\ keys = <<1>> /\ res.op = "verify_updates")
        => res.val = "false"

\* C2: after a single update of a clone of `before` with the private key 0,
\* verify_update(before, after, proof) with the returned proof is false, and
\* structure_check of the updated accumulator is false.
C2_RejectPrivateKeyZero ==
    (tamper = "none" /\ keys = <<0>> /\ res.op \in {"verify_updates", "structure_check"})
        => res.val = "false"

\* C3: from a freshly created accumulator, a transcript of k >= 1 updates with
\* non-degenerate keys passes verify_updates(before, after, proofs), and
\* verify_chain over the ordered proofs is true.
C3_HonestTranscriptVerifies ==
    (/\ Fresh(before)
     /\ tamper = "none"
     /\ keys # <<>>
     /\ AllNonDegenerate(keys)
     /\ res.op \in {"verify_updates", "verify_chain"})
        => res.val = "true"

C3_Witness ==
    /\ Fresh(before)
    /\ tamper = "none"
    /\ Len(keys) = 3
    /\ AllNonDegenerate(keys)
    /\ Len(acc.tau_g1) >= 3
    /\ res = [op |-> "verify_updates", val |-> "true"]

\* C4: no step changes index 0 of tau_g1 or tau_g2, and in every state
\* reachable from Accumulator::new by updates index 0 of each vector is the
\* generator of its group.
C4_AnchorInvariant ==
    /\ [](acc.tau_g1[1] = G1_generator /\ acc.tau_g2[1] = G2_generator)
    /\ [][acc'.tau_g1[1] = acc.tau_g1[1] /\ acc'.tau_g2[1] = acc.tau_g2[1]]_vars

C4_Witness ==
    /\ Len(keys) >= 3
    /\ keys[1] = 0
    /\ keys[2] = 1
    /\ NonDegenerate(keys[3])
    /\ acc.tau_g1[1] = G1_generator
    /\ acc.tau_g2[1] = G2_generator
    /\ is_zero(acc.tau_g1[2])

\* C5: verify_updates on an empty transcript does not return true for any
\* pair of accumulators: it stops at the failed expect.
C5_EmptyTranscriptRefused ==
    (res.op = "verify_updates" /\ proofs = <<>>) => res.val = "panic"

C5_Witness ==
    /\ res = [op |-> "verify_updates", val |-> "panic"]
    /\ proofs = <<>>
    /\ before # acc
    /\ structure_check(acc)

\* C6 as stated: for three pairwise distinct non-degenerate keys applied to
\* one accumulator, verify_chain from the pre-update degree-1 point is true on
\* the ordered proofs and false once two proofs are swapped.
C6_ChainLinkageAnyAccumulator ==
    (/\ Len(keys) = 3
     /\ AllNonDegenerate(keys)
     /\ PairwiseDistinct(keys)
     /\ res.op = "verify_chain")
        => /\ tamper = "none" => res.val = "true"
           /\ tamper = "swap" => res.val = "false"

\* C6 amended: the same, for an accumulator whose degree-1 G1 element is not
\* the identity.
C6_ChainLinkage ==
    (/\ Len(keys) = 3
     /\ AllNonDegenerate(keys)
     /\ PairwiseDistinct(keys)
     /\ ~is_zero(before.tau_g1[2])
     /\ res.op = "verify_chain")
        => /\ tamper = "none" => res.val = "true"
           /\ tamper = "swap" => res.val = "false"

C6_Witness ==
    /\ Len(keys) = 3
    /\ AllNonDegenerate(keys)
    /\ PairwiseDistinct(keys)
    /\ ~is_zero(before.tau_g1[2])
    /\ (keys[1] * keys[2]) % R = 1
    /\ tamper = "swap"
    /\ proofs[1].commitment_to_secret = to_public(keys[3])
    /\ proofs[3].commitment_to_secret = to_public(keys[1])
    /\ res = [op |-> "verify_chain", val |-> "false"]

\* C7: in an honest transcript of three updates with pairwise distinct
\* non-degenerate keys, replacing the new_accumulated_point of one proof by a
\* different group point makes verify_chain false.
C7_TamperedProofRejected ==
    (/\ Len(keys) = 3
     /\ AllNonDegenerate(keys)
     /\ PairwiseDistinct(keys)
     /\ tamper = "point"
     /\ res.op = "verify_chain")
        => res.val = "false"

C7_Witness ==
    /\ Len(keys) = 3
    /\ AllNonDegenerate(keys)
    /\ PairwiseDistinct(keys)
    /\ tamper = "point"
    /\ Last(proofs).new_accumulated_point # acc.tau_g1[2]
    /\ res = [op |-> "verify_chain", val |-> "false"]

\* C8: verify_updates is false whenever the first proof's previous point
\* differs from before.tau_g1[1], and whenever the last proof's new point
\* differs from after.tau_g1[1].
C8_EndpointsBound ==
    (/\ res.op = "verify_updates"
     /\ proofs # <<>>
     /\ \/ proofs[1].previous_accumulated_point # before.tau_g1[2]
        \/ Last(proofs).new_accumulated_point # acc.tau_g1[2])
        => res.val = "false"

C8_Witness ==
    /\ res = [op |-> "verify_updates", val |-> "false"]
    /\ tamper = "contribute"
    /\ proofs # <<>>
    /\ AllNonDegenerate(keys)
    /\ Fresh(before)
    /\ proofs[1].previous_accumulated_point = before.tau_g1[2]
    /\ Last(proofs).new_accumulated_point # acc.tau_g1[2]
    /\ structure_check(acc)

\* C9: an update with secret s multiplies the element at every index i >= 1
\* of both vectors by s^i, so after updates with keys s1..sk of an accumulator
\* encoding tau every element i is generator * (tau*s1*...*sk)^i; each proof
\* carries the public commitment of its key and the tau_g1[1] of its update.
C9_UpdateComposes ==
    tamper = "none" =>
        LET tau == before.tau_g1[2]
        IN  /\ before = Powers(tau, before)
            /\ acc = Powers((tau * Prod(keys, Len(keys))) % R, before)
            /\ \A j \in 1 .. Len(proofs) :
                  /\ proofs[j].commitment_to_secret = (G2_generator * keys[j]) % R
                  /\ proofs[j].new_accumulated_point = (tau * Prod(keys, j)) % R

C9_Witness ==
    /\ tamper = "none"
    /\ Len(keys) = 2
    /\ AllNonDegenerate(keys)
    /\ NonDegenerate(before.tau_g1[2])
    /\ NonDegenerate(acc.tau_g1[2])
    /\ Len(acc.tau_g1) = 2
    /\ Len(acc.tau_g2) = 3
    /\ acc.tau_g2[3] = Pow((before.tau_g1[2] * keys[1] * keys[2]) % R, 2)

\* the vectors are consecutive powers of the tau that tau_g2[1] encodes
\* relative to tau_g2[0]
ConsistentPowers(a) ==
    \E t \in Fr :
        /\ a.tau_g2[2] = mul(a.tau_g2[1], t)
        /\ \A i \in 1 .. (Len(a.tau_g1) - 1) : a.tau_g1[i + 1] = mul(a.tau_g1[i], t)
        /\ \A i \in 1 .. (Len(a.tau_g2) - 1) : a.tau_g2[i + 1] = mul(a.tau_g2[i], t)

\* C10 as stated: structure_check is true if and only if the vectors are
\* consecutive powers of one tau.
C10_StructureIffPowersAny ==
    res.op = "structure_check" => (res.val = "true" <=> ConsistentPowers(acc))

\* C10 amended: the same, for an accumulator whose degree-0 elements are not
\* the identity.
C10_StructureIffPowers ==
    (/\ res.op = "structure_check"
     /\ ~is_zero(acc.tau_g1[1])
     /\ ~is_zero(acc.tau_g2[1]))
        => (res.val = "true" <=> ConsistentPowers(acc))

C10_Witness ==
    /\ res = [op |-> "structure_check", val |-> "true"]
    /\ Len(acc.tau_g1) >= 3
    /\ NonDegenerate(acc.tau_g1[1])
    /\ NonDegenerate(acc.tau_g2[1])
    /\ acc.tau_g1[1] # acc.tau_g2[1]
    /\ NonDegenerate(acc.tau_g1[2])
    /\ acc.tau_g1[2] # acc.tau_g1[1]
====
